---- MODULE Spec2Model ----
(***************************************************************************)
(* A model of the SpatialData container (spatialdata/_core/spatialdata.py):*)
(* the element registry with its shared name set, filtering and            *)
(* transforming by coordinate system, and renaming coordinate systems.     *)
(*                                                                         *)
(* Python objects are modelled by identity: spatial elements and tables    *)
(* live in two heaps (elems, tabs) and a container maps names to heap ids, *)
(* so two containers holding the same object see each other's in-place     *)
(* changes.  The shared name set handed to each collection at construction *)
(* is an object too: a container holds a small heap of name sets and every *)
(* collection holds a reference into it.                                   *)
(***************************************************************************)
EXTENDS Integers, Sequences, FiniteSets, TLC

VARIABLES sdata, result, elems, tabs, disk, reader, last, nops

vars == <<sdata, result, elems, tabs, disk, reader, last, nops>>

\* ------------------------------------------------------------- universe

\* most operations applied to one container in a run
MaxOps == 3
\* most entries of one dict handed to the constructor
MaxInit == 1
\* longest table (rows) the model draws
MaxRows == 2
\* longest list of coordinate systems handed to filter_by_coordinate_system
MaxCsList == 2
\* most entries of a rename dict the model draws
MaxRename == 2

SpatialKindSeq == <<"images", "labels", "points", "shapes">>
SpatialKinds == {SpatialKindSeq[i] : i \in DOMAIN SpatialKindSeq}
Kinds == SpatialKinds \cup {"tables"}

Names == {"a", "b"}
TableNames == {"a", "t"}
CSSeq == <<"A", "B", "C">>
CS == {CSSeq[i] : i \in DOMAIN CSSeq}
Transformations == {"Identity", "Scale"}

NameSeq == <<"a", "b">>
TableNameSeq == <<"a", "t">>
ObjIds == 1..6
TblIds == 1..6
GroupIds == 0..5

\* no container (a constructor that raised), no annotation metadata
\* a key that is not given (an argument left out, a metadata entry not stored)
None == "None"
\* the paths of the file system; at a path: nothing, a file that is no Zarr
\* store, or a Zarr store with the element groups and metadata written to it
Paths == {"p", "q"}
NoFile == [kind |-> "absent"]
OtherFile == [kind |-> "other"]
EmptyStore == [kind |-> "zarr", written |-> <<>>, consolidated |-> FALSE]
NoDisk == [f \in Paths |-> NoFile]
\* no read is under way
NoReader == [phase |-> "idle"]
NoCont == [none |-> TRUE]
NoAttrs == [none |-> TRUE]

\* ------------------------------------------------------------- helpers

EmptyMap == [x \in {} |-> 0]
Ext(f, n, v) == [x \in (DOMAIN f) \cup {n} |-> IF x = n THEN v ELSE f[x]]
Drop(f, n) == [x \in (DOMAIN f) \ {n} |-> f[x]]
Range(s) == {s[i] : i \in DOMAIN s}
MinOf(S) == CHOOSE x \in S : \A y \in S : x <= y
\* a Python dict literal: a list of <<key, value>> pairs with distinct keys
IsDict(items) == \A i, j \in DOMAIN items : i # j => items[i][1] # items[j][1]
Keys(items) == {items[i][1] : i \in DOMAIN items}
SeqsUpTo(S, n) == UNION {[1..m -> S] : m \in 0..n}
Dicts(K, V, n) == {d \in SeqsUpTo(K \X V, n) : IsDict(d)}

\* ------------------------------------------------------------- registry

(* A container: el[k] is the dict of collection k (name -> heap id); sets is
   the container's heap of shared name sets, ref[k] the set object collection
   k was constructed with, own the set object self._shared_keys is bound to,
   path the store the container is backed by (self._path). *)
EmptyCont ==
  [el |-> [k \in Kinds |-> EmptyMap],
   ref |-> [k \in Kinds |-> 0],
   own |-> 0,
   sets |-> [g \in GroupIds |-> {}],
   path |-> None]

Ok(c) == [c |-> c, err |-> "ok"]
Fail(c, e) == [c |-> c, err |-> e]

\* every name registered in images, labels, points or shapes
SpatialNames(c) == UNION {DOMAIN c.el[k] : k \in SpatialKinds}

\* name set objects nothing refers to any more are dropped
Collect(c) ==
  LET live == {c.ref[k] : k \in Kinds} \cup {c.own}
  IN [c EXCEPT !.sets = [g \in GroupIds |-> IF g \in live THEN c.sets[g] ELSE {}]]

(* put(name, element): a spatial collection refuses a name its shared name
   set holds and records the name in it with the element; tables are exempt
   from the check and do not enter the set. *)
ElementsSetItem(c, k, n, v) ==
  IF k \in SpatialKinds /\ n \in c.sets[c.ref[k]]
  THEN Fail(c, "KeyError")
  ELSE Ok([c EXCEPT !.el[k] = Ext(@, n, v),
                    !.sets[c.ref[k]] = IF k \in SpatialKinds THEN @ \cup {n} ELSE @])

(* remove(name): deletes the entry and its name from the shared set; a name
   that is not registered is left alone. *)
ElementsDelItem(c, k, n) ==
  IF n \notin DOMAIN c.el[k]
  THEN Fail(c, "absent")
  ELSE Ok([c EXCEPT !.el[k] = Drop(@, n),
                    !.sets[c.ref[k]] = IF k \in SpatialKinds THEN @ \ {n} ELSE @])

\* for k, v in d.items(): self.<k>[k] = v   (the first failure propagates)
RECURSIVE PutAll(_, _, _)
PutAll(c, k, items) ==
  IF items = <<>> THEN Ok(c)
  ELSE LET r == ElementsSetItem(c, k, items[1][1], items[1][2])
       IN IF r.err # "ok" THEN r ELSE PutAll(r.c, k, Tail(items))

ThenPutAll(r, k, items) == IF r.err # "ok" THEN r ELSE PutAll(r.c, k, items)

(* sdata.<kind> = items: self._shared_keys is rebound to a NEW set (the old
   one minus this collection's keys), the collection is replaced by an empty
   one built on the new set, and the items are put one by one. *)
CollectionSetter(c, k, items) ==
  LET base == c.sets[c.own] \ DOMAIN c.el[k]
      g == MinOf(GroupIds \ {c.ref[j] : j \in Kinds \ {k}})
      fresh == Collect([c EXCEPT !.own = g, !.ref[k] = g,
                                 !.sets[g] = base, !.el[k] = EmptyMap])
      r == PutAll(fresh, k, items)
  IN [c |-> Collect(r.c), err |-> r.err]

\* list(chain.from_iterable(e.keys() for e in [images, labels, points, shapes]))
InitElementNames(imgs, labs, pts, shps) ==
  [i \in 1..Len(imgs) |-> imgs[i][1]] \o [i \in 1..Len(labs) |-> labs[i][1]]
    \o [i \in 1..Len(pts) |-> pts[i][1]] \o [i \in 1..Len(shps) |-> shps[i][1]]

\* len(element_names) != len(set(element_names))
HasDuplicateNames(element_names) == Len(element_names) # Cardinality(Range(element_names))

\* the constructor with the table names counted in its uniqueness check
SpatialDataInitTablesChecked(imgs, labs, pts, shps, tbls) ==
  IF HasDuplicateNames(InitElementNames(imgs, labs, pts, shps)
                         \o [i \in 1..Len(tbls) |-> tbls[i][1]])
  THEN Fail(NoCont, "KeyError")
  ELSE ThenPutAll(ThenPutAll(ThenPutAll(ThenPutAll(
         PutAll(EmptyCont, "images", imgs), "labels", labs), "shapes", shps),
         "points", pts), "tables", tbls)

(* SpatialData(images, labels, points, shapes, tables): a fresh name set
   shared by five empty collections, the uniqueness check of the spatial
   names, then the puts in the order images, labels, shapes, points, tables. *)
SpatialDataInit(imgs, labs, pts, shps, tbls) ==
  IF HasDuplicateNames(InitElementNames(imgs, labs, pts, shps))
  THEN Fail(NoCont, "KeyError")
  ELSE ThenPutAll(ThenPutAll(ThenPutAll(ThenPutAll(
         PutAll(EmptyCont, "images", imgs), "labels", labs), "shapes", shps),
         "points", pts), "tables", tbls)

\* ------------------------------------------------------------- heaps

\* a table parsed from a region column: one row per entry, annotating the
\* regions that occur in it
MkTable(regions) ==
  [obs |-> [col \in {"region", "instance_id"} |->
              IF col = "region" THEN regions ELSE [i \in 1..Len(regions) |-> i]],
   attrs |-> [region |-> Range(regions), region_key |-> "region",
              instance_key |-> "instance_id"]]

\* the heaps map the ids of the allocated objects to their contents
LiveIds(k) == IF k = "tables" THEN DOMAIN tabs ELSE DOMAIN elems
NamesOf(k) == IF k = "tables" THEN TableNames ELSE Names

\* ------------------------------------------------------------- queries

\* d.items() of a collection, in the order the names were inserted
Items(f, order) ==
  SelectSeq([i \in 1..Len(order) |->
               <<order[i], IF order[i] \in DOMAIN f THEN f[order[i]] ELSE 0>>],
            LAMBDA p : p[1] \in DOMAIN f)
OrderOf(k) == IF k = "tables" THEN TableNameSeq ELSE NameSeq
\* the ids (smallest first) a heap has free
RECURSIVE FreeIds(_, _)
FreeIds(ids, n) ==
  IF n = 0 THEN <<>> ELSE <<MinOf(ids)>> \o FreeIds(ids \ {MinOf(ids)}, n - 1)

\* get_transformation(element, get_all=True): the element's mapping
GetAllTransformations(E, o) == E[o]

\* the entries of collection k that map into every one of css
KeptElementsAll(c, E, k, css) ==
  [n \in {m \in DOMAIN c.el[k] :
            \A i \in DOMAIN css : css[i] \in DOMAIN GetAllTransformations(E, c.el[k][m])}
     |-> c.el[k][n]]

\* elements[element_type]: the entries of collection k that map into one of css
KeptElements(c, E, k, css) ==
  [n \in {m \in DOMAIN c.el[k] :
            \E i \in DOMAIN css : css[i] \in DOMAIN GetAllTransformations(E, c.el[k][m])}
     |-> c.el[k][n]]

\* the names of every spatial element, kept or not
AllElementPaths(c, E, css) == SpatialNames(c)

\* element_paths_in_coordinate_system (its members: the table filter asks isin)
ElementPaths(c, E, css) == UNION {DOMAIN KeptElements(c, E, k, css) : k \in SpatialKinds}

(* _filter_table_by_coordinate_system: a new table with the rows whose
   region_key value is one of the retained names, in their order *)
FilterTable(t, names) ==
  LET col == t.obs[t.attrs.region_key]
      idx == SelectSeq([i \in 1..Len(col) |-> i], LAMBDA i : col[i] \in names)
  IN [t EXCEPT !.obs = [c \in DOMAIN t.obs |-> [j \in 1..Len(idx) |-> t.obs[c][idx[j]]]]]

(* filter_by_coordinate_system(coordinate_system, filter_tables): the kept
   elements are the SAME objects; with filter_tables each table is replaced
   by a new, filtered one, without it the table objects are passed on; the
   result is built by the constructor.  Yields the container, the table heap
   and the outcome. *)
FilterByCoordinateSystem(c, E, Tb, css, filter_tables) ==
  LET paths == ElementPaths(c, E, css)
      tnames == Items(c.el["tables"], TableNameSeq)
      new == FreeIds(TblIds \ DOMAIN Tb, Len(tnames))
      Tb2 == IF filter_tables
             THEN [t \in (DOMAIN Tb) \cup Range(new) |->
                     IF t \in DOMAIN Tb THEN Tb[t]
                     ELSE LET i == CHOOSE j \in DOMAIN new : new[j] = t
                          IN FilterTable(Tb[tnames[i][2]], paths)]
             ELSE Tb
      tables == IF filter_tables
                THEN [i \in DOMAIN tnames |-> <<tnames[i][1], new[i]>>]
                ELSE tnames
      r == SpatialDataInit(Items(KeptElements(c, E, "images", css), NameSeq),
                           Items(KeptElements(c, E, "labels", css), NameSeq),
                           Items(KeptElements(c, E, "points", css), NameSeq),
                           Items(KeptElements(c, E, "shapes", css), NameSeq),
                           tables)
  IN [c |-> r.c, tabs |-> Tb2, err |-> r.err]

\* ------------------------------------------------------------- transformations

\* set_transformation(element, t, cs): replaces the entry of one key
SetTransformation(E, o, t, cs) == [E EXCEPT ![o] = Ext(@, cs, t)]
\* set_transformation(element, mapping, set_all=True): replaces the mapping
SetAllTransformations(E, o, m) == [E EXCEPT ![o] = m]
\* remove_transformation(element, cs)
RemoveTransformation(E, o, cs) == [E EXCEPT ![o] = Drop(@, cs)]
\* remove_transformation(element, remove_all=True)
RemoveAllTransformations(E, o) == [E EXCEPT ![o] = EmptyMap]
\* get_transformation_between_coordinate_systems: the direct mapping
GetTransformationBetween(E, o, target) == E[o][target]
\* transform(element, t): a NEW element (the input is not touched)
Transform(E, o, t) ==
  LET id == MinOf(ObjIds \ DOMAIN E)
  IN [E |-> [x \in (DOMAIN E) \cup {id} |-> IF x = id THEN E[o] ELSE E[x]], id |-> id]

\* the same steps applied to the element itself instead of a transformed copy
TransformElementInPlace(E, o, target) ==
  [E |-> SetTransformation(RemoveAllTransformations(E, o), o, "Identity", target),
   id |-> o]

\* the same steps without the removal of the transformed element's mappings
TransformElementKeepMappings(E, o, target) ==
  LET tr == Transform(E, o, GetTransformationBetween(E, o, target))
  IN [E |-> SetTransformation(tr.E, tr.id, "Identity", target), id |-> tr.id]

(* transform_element_to_coordinate_system: transform, strip every mapping of
   the transformed element, install Identity under the target *)
TransformElementToCoordinateSystem(E, o, target) ==
  LET tr == Transform(E, o, GetTransformationBetween(E, o, target))
  IN [E |-> SetTransformation(RemoveAllTransformations(tr.E, tr.id),
                              tr.id, "Identity", target),
      id |-> tr.id]

\* _gen_elements(): <<type, name, element>> over the spatial collections
GenElements(c) ==
  LET of(k) == LET it == Items(c.el[k], NameSeq)
               IN [i \in DOMAIN it |-> <<k, it[i][1], it[i][2]>>]
  IN of("images") \o of("labels") \o of("points") \o of("shapes")

\* _gen_spatial_element_values()
GenSpatialElementValues(c) == [i \in DOMAIN GenElements(c) |-> GenElements(c)[i][3]]

\* the loop of transform_to_coordinate_system over the filtered elements
RECURSIVE TransformEach(_, _, _, _)
TransformEach(E, todo, target, acc) ==
  IF todo = <<>> THEN [E |-> E, elements |-> acc]
  ELSE LET t == TransformElementToCoordinateSystem(E, todo[1][3], target)
       IN TransformEach(t.E, Tail(todo), target,
             [acc EXCEPT ![todo[1][1]] = Append(@, <<todo[1][2], t.id>>)])

(* transform_to_coordinate_system(target): filter (tables unfiltered), then
   transform every element, then construct the result *)
TransformToCoordinateSystem(c, E, Tb, target) ==
  LET f == FilterByCoordinateSystem(c, E, Tb, <<target>>, FALSE)
      t == TransformEach(E, IF f.err = "ok" THEN GenElements(f.c) ELSE <<>>, target,
                         [k \in SpatialKinds |-> <<>>])
      r == SpatialDataInit(t.elements["images"], t.elements["labels"],
                           t.elements["points"], t.elements["shapes"],
                           Items(f.c.el["tables"], TableNameSeq))
  IN IF f.err # "ok" THEN [c |-> NoCont, elems |-> E, tabs |-> f.tabs, err |-> f.err]
     ELSE [c |-> r.c, elems |-> t.E, tabs |-> f.tabs, err |-> r.err]

\* ------------------------------------------------------------- coordinate systems

\* coordinate_systems: every key of every spatial element's mapping
CoordinateSystems(c, E) ==
  UNION {DOMAIN GetAllTransformations(E, o) : o \in Range(GenSpatialElementValues(c))}

\* the check loop without its test that the source is a live system
RECURSIVE RenameCheckNoSource(_, _, _)
RenameCheckNoSource(rd, old_names, new_names) ==
  IF rd = <<>> THEN "ok"
  ELSE IF rd[1][2] \in new_names THEN "ValueError"
  ELSE RenameCheckNoSource(Tail(rd), old_names, new_names \cup {rd[1][2]})

\* the check loop without its test that the new name is not a kept system
RECURSIVE RenameCheckNoTarget(_, _, _)
RenameCheckNoTarget(rd, old_names, new_names) ==
  IF rd = <<>> THEN "ok"
  ELSE IF rd[1][1] \notin old_names THEN "ValueError"
  ELSE RenameCheckNoTarget(Tail(rd), old_names, new_names \cup {rd[1][2]})

\* the check loop of rename_coordinate_systems (new_names only asked "in")
RECURSIVE RenameCheck(_, _, _)
RenameCheck(rd, old_names, new_names) ==
  IF rd = <<>> THEN "ok"
  ELSE IF rd[1][1] \notin old_names THEN "ValueError"
  ELSE IF rd[1][2] \in new_names THEN "ValueError"
  ELSE RenameCheck(Tail(rd), old_names, new_names \cup {rd[1][2]})

\* the first loop writing the target key itself, with no suffix appended
RECURSIVE AppendSuffixesNoSuffix(_, _, _)
AppendSuffixesNoSuffix(tr, rd, i) ==
  IF i > Len(rd) THEN tr
  ELSE LET IsOld(e) == e[1] = rd[i][1] /\ e[2] = 0
           IsNew(e) == e[1] = rd[i][2] /\ e[2] = 0
           hit == {j \in DOMAIN tr : IsOld(tr[j])}
       IN IF hit = {} THEN AppendSuffixesNoSuffix(tr, rd, i + 1)
          ELSE LET v == tr[CHOOSE j \in hit : TRUE][3]
               IN AppendSuffixesNoSuffix(
                    Append(SelectSeq(tr, LAMBDA e : ~IsOld(e) /\ ~IsNew(e)),
                           <<rd[i][2], 0, v>>),
                    rd, i + 1)

(* The mapping while it is renamed: an ordered dict of <<name, suffix, value>>,
   suffix 0 for a plain key.  The 8 random hex digits appended to a target are
   the index of the rename entry: a fresh suffix equals no other key. *)
RECURSIVE AppendSuffixes(_, _, _)
AppendSuffixes(tr, rd, i) ==
  IF i > Len(rd) THEN tr
  ELSE LET IsOld(e) == e[1] = rd[i][1] /\ e[2] = 0
           hit == {j \in DOMAIN tr : IsOld(tr[j])}
       IN IF hit = {} THEN AppendSuffixes(tr, rd, i + 1)
          ELSE LET v == tr[CHOOSE j \in hit : TRUE][3]
               IN AppendSuffixes(
                    Append(SelectSeq(tr, LAMBDA e : ~IsOld(e)), <<rd[i][2], i, v>>),
                    rd, i + 1)

\* new_transformations: each key, its suffix cut, assigned in dict order
RECURSIVE RemoveSuffixes(_, _)
RemoveSuffixes(tr, acc) ==
  IF tr = <<>> THEN acc
  ELSE RemoveSuffixes(Tail(tr), Ext(acc, tr[1][1], tr[1][3]))

RenameElement(E, o, rd) ==
  LET m == GetAllTransformations(E, o)
      keys == SelectSeq(CSSeq, LAMBDA cs : cs \in DOMAIN m)
      tr == [i \in DOMAIN keys |-> <<keys[i], 0, m[keys[i]]>>]
  IN SetAllTransformations(E, o, RemoveSuffixes(AppendSuffixes(tr, rd, 1), EmptyMap))

\* the loop leaving after its first element
RenameEachFirstOnly(E, objs, rd) ==
  IF objs = <<>> THEN E ELSE RenameElement(E, objs[1], rd)

RECURSIVE RenameEach(_, _, _)
RenameEach(E, objs, rd) ==
  IF objs = <<>> THEN E ELSE RenameEach(RenameElement(E, objs[1], rd), Tail(objs), rd)

\* the renaming loop run before the check instead of after it
RenameThenCheck(c, E, rd) ==
  LET old_names == CoordinateSystems(c, E)
  IN [elems |-> RenameEach(E, GenSpatialElementValues(c), rd),
      err |-> RenameCheck(rd, old_names, old_names \ Keys(rd))]

(* rename_coordinate_systems(rename_dict): the check, then every spatial
   element's mapping rewritten in place *)
RenameCoordinateSystems(c, E, rd) ==
  LET old_names == CoordinateSystems(c, E)
      chk == RenameCheck(rd, old_names, old_names \ Keys(rd))
  IN IF chk # "ok" THEN [elems |-> E, err |-> chk]
     ELSE [elems |-> RenameEach(E, GenSpatialElementValues(c), rd), err |-> "ok"]

\* ------------------------------------------------------------- operations

NoNames == [k \in Kinds |-> {}]
Only(k, S) == [j \in Kinds |-> IF j = k THEN S ELSE {}]
Did(op, k, names, err) == [op |-> op, kind |-> k, names |-> names, err |-> err]
Step == nops < MaxOps /\ nops' = nops + 1

\* sdata[n] = v, sdata.<k>[n] = v
SetItem(k, n, v) ==
  /\ Step
  /\ LET r == ElementsSetItem(sdata, k, n, v)
     IN /\ sdata' = r.c
        /\ last' = Did("put", k, Only(k, {n}), r.err)
  /\ UNCHANGED <<disk, reader, result, elems, tabs>>

\* del sdata.<k>[n]
DelItem(k, n) ==
  /\ Step
  /\ LET r == ElementsDelItem(sdata, k, n)
     IN /\ sdata' = r.c
        /\ last' = Did("del", k, Only(k, {n}), r.err)
  /\ UNCHANGED <<disk, reader, result, elems, tabs>>

\* sdata.<k> = items
SetCollection(k, items) ==
  /\ Step
  /\ LET r == CollectionSetter(sdata, k, items)
     IN /\ sdata' = r.c
        /\ last' = Did("set", k, Only(k, Keys(items)), r.err)
  /\ UNCHANGED <<disk, reader, result, elems, tabs>>

\* sdata = SpatialData(images=..., labels=..., points=..., shapes=..., tables=...)
Construct(imgs, labs, pts, shps, tbls) ==
  /\ Step
  /\ LET r == SpatialDataInit(imgs, labs, pts, shps, tbls)
     IN /\ sdata' = IF r.err = "ok" THEN r.c ELSE sdata
        /\ last' = Did("init", "-",
                       [k \in Kinds |-> CASE k = "images" -> Keys(imgs)
                                          [] k = "labels" -> Keys(labs)
                                          [] k = "points" -> Keys(pts)
                                          [] k = "shapes" -> Keys(shps)
                                          [] OTHER -> Keys(tbls)], r.err)
  /\ UNCHANGED <<disk, reader, result, elems, tabs>>

\* ------------------------------------------------------------- the registry

InitRegistry ==
  /\ sdata = EmptyCont
  /\ result = NoCont
  /\ elems = [o \in {1} |-> [cs \in {"A"} |-> "Identity"]]
  /\ tabs = [t \in {1} |-> MkTable(<<"a">>)]
  /\ last = Did("none", "-", NoNames, "ok")
  /\ disk = NoDisk
  /\ reader = NoReader
  /\ nops = 0

NextRegistry ==
  \/ \E k \in Kinds : \E n \in NamesOf(k) : \E v \in LiveIds(k) : SetItem(k, n, v)
  \/ \E k \in Kinds : \E n \in NamesOf(k) : DelItem(k, n)
  \/ \E k \in Kinds : \E d \in Dicts(NamesOf(k), LiveIds(k), Cardinality(NamesOf(k))) :
        SetCollection(k, d)
  \/ /\ last.op = "none"
     /\ \E imgs, labs, pts, shps \in Dicts(Names, LiveIds("images"), MaxInit) :
          \E tbls \in Dicts(TableNames, LiveIds("tables"), MaxInit) :
             Construct(imgs, labs, pts, shps, tbls)

SpecRegistry == InitRegistry /\ [][NextRegistry]_vars

\* ------------------------------------------------------------- query operations

\* result = sdata.filter_by_coordinate_system(css, filter_tables)
Filter(css, ft) ==
  /\ nops = 0 /\ nops' = 1
  /\ LET r == FilterByCoordinateSystem(sdata, elems, tabs, css, ft)
     IN /\ result' = r.c
        /\ tabs' = r.tabs
        /\ last' = [op |-> "filter", css |-> css, ft |-> ft, err |-> r.err]
  /\ UNCHANGED <<disk, reader, sdata, elems>>

\* result = sdata.transform_to_coordinate_system(target)
TransformTo(target) ==
  /\ nops = 0 /\ nops' = 1
  /\ LET r == TransformToCoordinateSystem(sdata, elems, tabs, target)
     IN /\ result' = r.c
        /\ elems' = r.elems
        /\ tabs' = r.tabs
        /\ last' = [op |-> "transform", css |-> <<target>>, ft |-> FALSE, err |-> r.err]
  /\ UNCHANGED <<disk, reader, sdata>>

\* sdata.rename_coordinate_systems(rd)
Rename(rd) ==
  /\ nops = 0 /\ nops' = 1
  /\ LET r == RenameCoordinateSystems(sdata, elems, rd)
     IN /\ elems' = r.elems
        /\ last' = [op |-> "rename", rd |-> rd, err |-> r.err]
  /\ UNCHANGED <<disk, reader, sdata, result, tabs>>

\* ------------------------------------------------------------- drawn containers

MapsOver(keys, vals) == UNION {[S -> vals] : S \in SUBSET keys}
Absent == "-"

(* The container SpatialData(...) builds from element "a" (object 1) of kind
   ka with mapping ma, element "b" (object 2) of kind kb with mapping mb, and
   the tables tbls (a dict of table objects of heap Tb), with file system D. *)
Drawn(ka, ma, kb, mb, tbls, Tb, D) ==
  LET all == <<<<"a", 1, ka>>, <<"b", 2, kb>>>>
      of(k) == LET mine == SelectSeq(all, LAMBDA e : e[3] = k)
               IN [i \in DOMAIN mine |-> <<mine[i][1], mine[i][2]>>]
      r == SpatialDataInit(of("images"), of("labels"), of("points"), of("shapes"), tbls)
  IN /\ sdata = r.c
     /\ elems = [o \in {e[2] : e \in {all[i] : i \in {j \in DOMAIN all : all[j][3] # Absent}}}
                   |-> IF o = 1 THEN ma ELSE mb]
     /\ tabs = Tb
     /\ result = NoCont
     /\ last = Did("none", "-", NoNames, "ok")
     /\ disk = D
     /\ reader = NoReader
  /\ nops = 0

\* the tables drawn: none, or table "t" with up to MaxRows rows
DrawnTables ==
  {<<<<>>, EmptyMap>>}
    \cup {<<<<<<"t", 1>>>>, [t \in {1} |-> MkTable(rows)]>> : rows \in SeqsUpTo(Names, MaxRows)}

\* the mappings drawn for an element of the filtered containers
DrawnMaps == MapsOver({"A"}, Transformations) \cup MapsOver({"A", "B"}, {"Scale"})

InitFilter ==
  \E ka \in {"images", "labels", Absent}, kb \in {"labels", "points", "shapes", Absent} :
    \E ma \in (IF ka = Absent THEN {EmptyMap} ELSE DrawnMaps) :
      \E mb \in (IF kb = Absent THEN {EmptyMap} ELSE DrawnMaps) :
        \E tb \in DrawnTables : Drawn(ka, ma, kb, mb, tb[1], tb[2], NoDisk)

NextFilter ==
  \/ \E css \in SeqsUpTo(CS, MaxCsList) : \E ft \in BOOLEAN : Filter(css, ft)
  \/ \E target \in CS : TransformTo(target)

SpecFilter == InitFilter /\ [][NextFilter]_vars

\* ------------------------------------------------------------- changes of a query result

\* the element registered under name n in container c
ElementNamed(c, n) ==
  LET g == GenElements(c) IN g[CHOOSE i \in DOMAIN g : g[i][2] = n][3]
Mutate == nops = 1 /\ last.op = "filter" /\ last.err = "ok" /\ nops' = 2

\* result.rename_coordinate_systems(rd)
ResultRename(rd) ==
  /\ Mutate
  /\ LET r == RenameCoordinateSystems(result, elems, rd)
     IN /\ elems' = r.elems
        /\ last' = [op |-> "result.rename", rd |-> rd, err |-> r.err]
  /\ UNCHANGED <<disk, reader, sdata, result, tabs>>

\* set_transformation(result[n], t, cs)
ResultSetTransformation(n, t, cs) ==
  /\ Mutate
  /\ n \in SpatialNames(result)
  /\ elems' = SetTransformation(elems, ElementNamed(result, n), t, cs)
  /\ last' = [op |-> "result.set_transformation", name |-> n, err |-> "ok"]
  /\ UNCHANGED <<disk, reader, sdata, result, tabs>>

\* remove_transformation(result[n], cs)
ResultRemoveTransformation(n, cs) ==
  /\ Mutate
  /\ n \in SpatialNames(result)
  /\ cs \in DOMAIN elems[ElementNamed(result, n)]
  /\ elems' = RemoveTransformation(elems, ElementNamed(result, n), cs)
  /\ last' = [op |-> "result.remove_transformation", name |-> n, err |-> "ok"]
  /\ UNCHANGED <<disk, reader, sdata, result, tabs>>

\* result.tables[n] = table
ResultSetTable(n, t) ==
  /\ Mutate
  /\ LET r == ElementsSetItem(result, "tables", n, t)
     IN /\ result' = r.c
        /\ last' = [op |-> "result.tables.put", name |-> n, err |-> r.err]
  /\ UNCHANGED <<disk, reader, sdata, elems, tabs>>

\* del result.tables[n]
ResultDelTable(n) ==
  /\ Mutate
  /\ LET r == ElementsDelItem(result, "tables", n)
     IN /\ result' = r.c
        /\ last' = [op |-> "result.tables.del", name |-> n, err |-> r.err]
  /\ UNCHANGED <<disk, reader, sdata, elems, tabs>>

InitAlias ==
  \E ka \in {"images", Absent}, kb \in {"shapes", Absent} :
    \E ma \in (IF ka = Absent THEN {EmptyMap} ELSE DrawnMaps) :
      \E mb \in (IF kb = Absent THEN {EmptyMap} ELSE DrawnMaps) :
        \E tb \in DrawnTables : Drawn(ka, ma, kb, mb, tb[1], tb[2], NoDisk)

NextAlias ==
  \/ \E cs \in CS : \E ft \in BOOLEAN : Filter(<<cs>>, ft)
  \/ \E rd \in Dicts(CS, CS, 1) : ResultRename(rd)
  \/ \E n \in Names : \E t \in Transformations : \E cs \in CS : ResultSetTransformation(n, t, cs)
  \/ \E n \in Names : \E cs \in CS : ResultRemoveTransformation(n, cs)
  \/ \E n \in TableNames : \E t \in DOMAIN tabs : ResultSetTable(n, t)
  \/ \E n \in TableNames : ResultDelTable(n)

SpecAlias == InitAlias /\ [][NextAlias]_vars

\* ------------------------------------------------------------- renaming

InitRename ==
  \E ka \in {"images", Absent}, kb \in {"labels", Absent} :
    \E ma \in (IF ka = Absent THEN {EmptyMap} ELSE MapsOver({"A", "B"}, Transformations)) :
      \E mb \in (IF kb = Absent THEN {EmptyMap} ELSE MapsOver({"A", "B"}, Transformations)) :
        Drawn(ka, ma, kb, mb, <<>>, EmptyMap, NoDisk)

NextRename == \E rd \in Dicts(CS, CS, MaxRename) : Rename(rd)

SpecRename == InitRename /\ [][NextRename]_vars

\* ------------------------------------------------------------- annotation targets

ObsCols == {"region", "alt", "instance_id"}

(* check_target_region_column_symmetry(table, region_key, target): the values
   of the region_key column must all be named by target; a region_key that is
   no column is the KeyError of the column lookup *)
CheckTargetRegionColumnSymmetry(t, region_key, target) ==
  IF region_key \notin DOMAIN t.obs THEN "KeyError"
  ELSE IF Range(t.obs[region_key]) \subseteq target THEN "ok" ELSE "ValueError"

\* get_table_keys(table): the stored triple
GetTableKeys(t) == <<t.attrs.region, t.attrs.region_key, t.attrs.instance_key>>
\* get_annotated_regions(table)
GetAnnotatedRegions(t) == GetTableKeys(t)[1]

\* the metadata written first and the checks made afterwards
SetTargetWriteFirst(t, region, region_key, instance_key) ==
  [t |-> [t EXCEPT !.attrs = [region |-> region, region_key |-> region_key,
                              instance_key |-> instance_key]],
   err |-> IF region_key \notin DOMAIN t.obs \/ instance_key \notin DOMAIN t.obs
           THEN "ValueError"
           ELSE CheckTargetRegionColumnSymmetry(t, region_key, region)]

\* the checks made and the metadata not written
SetTargetNoStore(t, region, region_key, instance_key) ==
  [t |-> t,
   err |-> IF region_key \notin DOMAIN t.obs \/ instance_key \notin DOMAIN t.obs
           THEN "ValueError"
           ELSE CheckTargetRegionColumnSymmetry(t, region_key, region)]

(* _set_table_annotation_target(table, region, region_key, instance_key):
   yields the table afterwards and the outcome *)
SetTableAnnotationTarget(t, region, region_key, instance_key) ==
  IF region_key \notin DOMAIN t.obs THEN [t |-> t, err |-> "ValueError"]
  ELSE IF instance_key \notin DOMAIN t.obs THEN [t |-> t, err |-> "ValueError"]
  ELSE LET chk == CheckTargetRegionColumnSymmetry(t, region_key, region)
       IN IF chk # "ok" THEN [t |-> t, err |-> chk]
          ELSE [t |-> [t EXCEPT !.attrs = [region |-> region, region_key |-> region_key,
                                           instance_key |-> instance_key]],
                err |-> "ok"]

(* TableModel()._validate_set_instance_key(table, instance_key): a given key
   must be a column and is stored, without one the stored key must be a column *)
ValidateSetInstanceKey(t, instance_key) ==
  IF instance_key # None
  THEN IF instance_key \in DOMAIN t.obs
       THEN [t |-> [t EXCEPT !.attrs.instance_key = instance_key], err |-> "ok"]
       ELSE [t |-> t, err |-> "ValueError"]
  ELSE [t |-> t,
        err |-> IF t.attrs.instance_key \in DOMAIN t.obs THEN "ok" ELSE "ValueError"]

\* the new region stored before the symmetry check instead of after it
ChangeTargetCommitFirst(t, region, region_key, instance_key) ==
  LET table_region_key == t.attrs.region_key
      v == ValidateSetInstanceKey(t, instance_key)
      done == IF v.err # "ok" THEN v
              ELSE [t |-> [v.t EXCEPT !.attrs.region = region],
                    err |-> CheckTargetRegionColumnSymmetry(v.t, table_region_key, region)]
  IN IF region_key = None
     THEN IF table_region_key = None THEN [t |-> t, err |-> "ValueError"]
          ELSE IF table_region_key \notin DOMAIN t.obs THEN [t |-> t, err |-> "ValueError"]
          ELSE done
     ELSE IF region_key \notin DOMAIN t.obs THEN [t |-> t, err |-> "ValueError"]
          ELSE done

(* _change_table_annotation_target(table, region, region_key, instance_key)
   on a table that has annotation metadata: yields the table afterwards and
   the outcome *)
ChangeTableAnnotationTarget(t, region, region_key, instance_key) ==
  LET table_region_key == t.attrs.region_key
      v == ValidateSetInstanceKey(t, instance_key)
      chk == CheckTargetRegionColumnSymmetry(v.t, table_region_key, region)
      done == IF v.err # "ok" THEN v
              ELSE IF chk # "ok" THEN [t |-> v.t, err |-> chk]
              ELSE [t |-> [v.t EXCEPT !.attrs.region = region], err |-> "ok"]
  IN IF region_key = None
     THEN IF table_region_key = None THEN [t |-> t, err |-> "ValueError"]
          ELSE IF table_region_key \notin DOMAIN t.obs THEN [t |-> t, err |-> "ValueError"]
          ELSE done
     ELSE IF region_key \notin DOMAIN t.obs THEN [t |-> t, err |-> "ValueError"]
          ELSE done

\* TableModel().validate(table): the columns the metadata names must exist
TableModelValidate(t) ==
  IF t.attrs = NoAttrs THEN "ok"
  ELSE IF t.attrs.region_key \in DOMAIN t.obs /\ t.attrs.instance_key \in DOMAIN t.obs
       THEN "ok" ELSE "ValidationError"

\* the validation that warns of every table with annotation metadata
ValidateTableAlwaysWarns(c, t) ==
  [err |-> TableModelValidate(t),
   warn |-> TableModelValidate(t) = "ok" /\ t.attrs # NoAttrs]

\* a validation that raises for a table annotating an element not present
ValidateTableRaises(c, t) ==
  LET g == GenElements(c)
      element_names == {g[i][2] : i \in DOMAIN g}
  IN IF TableModelValidate(t) # "ok" THEN [err |-> TableModelValidate(t), warn |-> FALSE]
     ELSE IF t.attrs # NoAttrs /\ ~(t.attrs.region \subseteq element_names)
     THEN [err |-> "ValueError", warn |-> FALSE]
     ELSE [err |-> "ok", warn |-> FALSE]

(* validate_table_in_spatialdata(table): the outcome and whether the warning
   "annotating an/some element(s) not present" is emitted *)
ValidateTableInSpatialData(c, t) ==
  LET g == GenElements(c)
      element_names == {g[i][2] : i \in DOMAIN g}
  IN IF TableModelValidate(t) # "ok" THEN [err |-> TableModelValidate(t), warn |-> FALSE]
     ELSE [err |-> "ok",
           warn |-> t.attrs # NoAttrs /\ ~(t.attrs.region \subseteq element_names)]

(* the loop of the constructor over its tables, run on the container c that
   already holds the spatial elements: each table validated, then put *)
RECURSIVE InitTables(_, _, _, _)
InitTables(c, Tb, tbls, warned) ==
  IF tbls = <<>> THEN [c |-> c, err |-> "ok", warn |-> warned]
  ELSE LET v == ValidateTableInSpatialData(c, Tb[tbls[1][2]])
           r == ElementsSetItem(c, "tables", tbls[1][1], tbls[1][2])
       IN IF v.err # "ok" THEN [c |-> NoCont, err |-> v.err, warn |-> warned]
          ELSE IF r.err # "ok" THEN [c |-> NoCont, err |-> r.err, warn |-> warned \/ v.warn]
          ELSE InitTables(r.c, Tb, Tail(tbls), warned \/ v.warn)

\* SpatialData(images, labels, points, shapes of container c, tables=tbls)
SpatialDataInitWith(c, Tb, tbls) ==
  LET sp == SpatialDataInit(Items(c.el["images"], NameSeq), Items(c.el["labels"], NameSeq),
                            Items(c.el["points"], NameSeq), Items(c.el["shapes"], NameSeq),
                            <<>>)
  IN IF sp.err # "ok" THEN [c |-> NoCont, err |-> sp.err, warn |-> FALSE]
     ELSE InitTables(sp.c, Tb, tbls, FALSE)

Called(op, t, region, region_key, instance_key, err, warn) ==
  [op |-> op, table |-> t, region |-> region, region_key |-> region_key,
   instance_key |-> instance_key, err |-> err, warn |-> warn]

\* SpatialData._set_table_annotation_target(table, region, region_key, instance_key)
SetTarget(t, region, region_key, instance_key) ==
  /\ nops = 0 /\ nops' = 1
  /\ LET r == SetTableAnnotationTarget(tabs[t], region, region_key, instance_key)
     IN /\ tabs' = [tabs EXCEPT ![t] = r.t]
        /\ last' = Called("set_target", t, region, region_key, instance_key, r.err, FALSE)
  /\ UNCHANGED <<disk, reader, sdata, result, elems>>

\* SpatialData._change_table_annotation_target(table, region, region_key, instance_key)
ChangeTarget(t, region, region_key, instance_key) ==
  /\ nops = 0 /\ nops' = 1
  /\ tabs[t].attrs # NoAttrs
  /\ LET r == ChangeTableAnnotationTarget(tabs[t], region, region_key, instance_key)
     IN /\ tabs' = [tabs EXCEPT ![t] = r.t]
        /\ last' = Called("change_target", t, region, region_key, instance_key, r.err, FALSE)
  /\ UNCHANGED <<disk, reader, sdata, result, elems>>

\* sdata.validate_table_in_spatialdata(table)
ValidateTable(t) ==
  /\ nops = 0 /\ nops' = 1
  /\ LET v == ValidateTableInSpatialData(sdata, tabs[t])
     IN last' = Called("validate", t, {}, None, None, v.err, v.warn)
  /\ UNCHANGED <<disk, reader, sdata, result, elems, tabs>>

\* result = SpatialData(**spatial elements of sdata, tables=tbls)
ConstructWith(tbls) ==
  /\ nops = 0 /\ nops' = 1
  /\ LET r == SpatialDataInitWith(sdata, tabs, tbls)
     IN /\ result' = r.c
        /\ last' = [Called("init", 0, {}, None, None, r.err, r.warn) EXCEPT !.table = tbls]
  /\ UNCHANGED <<disk, reader, sdata, elems, tabs>>

(* set_table_annotates_spatialelement(table_name, region, region_key,
   instance_key) with the name of one element as region: yields the table
   afterwards and the outcome *)
SetTableAnnotatesSpatialElement(c, Tb, table_name, region, region_key, instance_key) ==
  LET t == Tb[c.el["tables"][table_name]]
      g == GenElements(c)
      element_names == {g[i][2] : i \in DOMAIN g}
  IN IF region \notin element_names THEN [t |-> t, err |-> "ValueError"]
     ELSE IF t.attrs # NoAttrs
     THEN ChangeTableAnnotationTarget(t, {region}, region_key, instance_key)
     ELSE IF region_key # None /\ instance_key # None
     THEN SetTableAnnotationTarget(t, {region}, region_key, instance_key)
     ELSE [t |-> t, err |-> "TypeError"]

\* sdata.set_table_annotates_spatialelement(table_name, region, region_key, instance_key)
SetTableAnnotates(table_name, region, region_key, instance_key) ==
  /\ nops = 0 /\ nops' = 1
  /\ LET r == SetTableAnnotatesSpatialElement(sdata, tabs, table_name, region,
                                              region_key, instance_key)
     IN /\ tabs' = [tabs EXCEPT ![sdata.el["tables"][table_name]] = r.t]
        /\ last' = Called("annotates", sdata.el["tables"][table_name], {region},
                           region_key, instance_key, r.err, FALSE)
  /\ UNCHANGED <<disk, reader, sdata, result, elems>>

\* the annotation metadata drawn for a table
DrawnAttrs ==
  {NoAttrs} \cup {[region |-> rg, region_key |-> rk, instance_key |-> ik] :
                    rg \in (SUBSET Names) \ {{}}, rk \in {"region", "alt", None},
                    ik \in {"instance_id", None}}

\* the tables drawn: up to MaxRows rows, any of the columns, any metadata
DrawnAnnTables ==
  {[obs |-> [col \in cols |-> CASE col = "region" -> rows
                               [] col = "alt" -> [i \in 1..Len(rows) |-> "b"]
                               [] OTHER -> [i \in 1..Len(rows) |-> i]],
    attrs |-> at] :
     cols \in SUBSET ObsCols, rows \in SeqsUpTo(Names, MaxRows), at \in DrawnAttrs}

InitAnnotation ==
  \E ka \in {"labels", Absent}, kb \in {"shapes", Absent} : \E t \in DrawnAnnTables :
    Drawn(ka, [cs \in {"A"} |-> "Identity"], kb, [cs \in {"A"} |-> "Identity"],
          <<<<"t", 1>>>>, [i \in {1} |-> t], NoDisk)

NextAnnotation ==
  \/ \E t \in DOMAIN tabs : \E rg \in (SUBSET Names) \ {{}} :
        \E rk \in {"region", "alt"}, ik \in {"instance_id"} : SetTarget(t, rg, rk, ik)
  \/ \E t \in DOMAIN tabs : \E rg \in (SUBSET Names) \ {{}} :
        \E rk \in {"region", "alt", None}, ik \in {"instance_id", None} :
           ChangeTarget(t, rg, rk, ik)
  \/ \E t \in DOMAIN tabs : ValidateTable(t)
  \/ \E tbls \in Dicts(TableNames, DOMAIN tabs, MaxInit) : ConstructWith(tbls)
  \/ \E n \in DOMAIN sdata.el["tables"] : \E rg \in Names \cup TableNames :
        \E rk \in {"region", "alt", None}, ik \in {"instance_id", "alt", None} :
           SetTableAnnotates(n, rg, rk, ik)

SpecAnnotation == InitAnnotation /\ [][NextAnnotation]_vars

\* ------------------------------------------------------------- writing

MaxWrites == 2

\* the elements in the order write goes through them: <<type, name>>
WriteOrder(c) ==
  LET g == GenElements(c)
      t == Items(c.el["tables"], TableNameSeq)
  IN [i \in DOMAIN g |-> <<g[i][1], g[i][2]>>] \o [i \in DOMAIN t |-> <<"tables", t[i][1]>>]

(* write from the creation of the root group on: the path is bound, the
   elements are written in order, the metadata is consolidated.  fault names
   the step that raises: 0 none, i the write of the i-th element, one more
   than the number of elements the consolidation. *)
WriteStore(c, D, file_path, overwrite, consolidate_metadata, fault) ==
  LET todo == WriteOrder(c)
      At(w, cons) == [D EXCEPT ![file_path] =
                        [kind |-> "zarr", written |-> w, consolidated |-> cons]]
      bound == [c EXCEPT !.path = file_path]
  IN IF fault \in 1..Len(todo)
     THEN [c |-> [c EXCEPT !.path = None], disk |-> At(SubSeq(todo, 1, fault - 1), FALSE),
           err |-> "Exception", msg |-> "element"]
     ELSE IF consolidate_metadata /\ fault = Len(todo) + 1
     THEN [c |-> bound, disk |-> At(todo, FALSE), err |-> "Exception", msg |-> "consolidate"]
     ELSE [c |-> bound, disk |-> At(todo, consolidate_metadata), err |-> "ok", msg |-> "-"]

\* write without its refusal of an existing store that is not the backing one
WriteOverExisting(c, D, file_path, overwrite, consolidate_metadata, fault) ==
  IF D[file_path].kind = "other"
  THEN [c |-> c, disk |-> D, err |-> "ValueError", msg |-> "not a Zarr store"]
  ELSE IF D[file_path].kind # "absent" /\ c.path = file_path
  THEN [c |-> c, disk |-> D, err |-> "ValueError", msg |-> "same as backing"]
  ELSE WriteStore(c, D, file_path, overwrite, consolidate_metadata, fault)

(* write(file_path, overwrite, consolidate_metadata): yields the container,
   the file system and the outcome *)
Write(c, D, file_path, overwrite, consolidate_metadata, fault) ==
  IF D[file_path].kind # "absent"
  THEN IF D[file_path].kind = "other"
       THEN [c |-> c, disk |-> D, err |-> "ValueError", msg |-> "not a Zarr store"]
       ELSE IF ~overwrite /\ c.path # file_path
       THEN [c |-> c, disk |-> D, err |-> "ValueError", msg |-> "already exists"]
       ELSE [c |-> c, disk |-> D, err |-> "ValueError", msg |-> "same as backing"]
  ELSE WriteStore(c, D, file_path, overwrite, consolidate_metadata, fault)

\* is_backed()
IsBacked(c) == c.path # None

\* sdata.write(file_path, overwrite=..., consolidate_metadata=...)
WriteTo(file_path, overwrite, consolidate_metadata, fault) ==
  /\ nops < MaxWrites /\ nops' = nops + 1
  /\ fault = Len(WriteOrder(sdata)) + 1 => consolidate_metadata
  /\ LET r == Write(sdata, disk, file_path, overwrite, consolidate_metadata, fault)
     IN /\ sdata' = r.c
        /\ disk' = r.disk
        /\ last' = [op |-> "write", path |-> file_path, overwrite |-> overwrite,
                     consolidate |-> consolidate_metadata, fault |-> fault,
                     err |-> r.err, msg |-> r.msg]
  /\ UNCHANGED <<result, elems, tabs, reader>>

(* a container of up to two spatial elements and a table, not backed, and a
   file system with nothing, another file or a store at each path *)
InitWrite ==
  \E ka \in {"images", Absent}, kb \in {"shapes", Absent}, nt \in {0, 1} :
    \E D \in [Paths -> {NoFile, OtherFile, EmptyStore}] :
      /\ Drawn(ka, [cs \in {"A"} |-> "Identity"], kb, [cs \in {"A"} |-> "Identity"],
               IF nt = 1 THEN <<<<"t", 1>>>> ELSE <<>>,
               IF nt = 1 THEN [i \in {1} |-> MkTable(<<"a">>)] ELSE EmptyMap, D)

NextWrite ==
  \E file_path \in Paths : \E overwrite, consolidate_metadata \in BOOLEAN :
    \E fault \in 0..(Len(WriteOrder(sdata)) + 1) :
       WriteTo(file_path, overwrite, consolidate_metadata, fault)

SpecWrite == InitWrite /\ [][NextWrite]_vars

\* ------------------------------------------------------------- reading

\* the kinds of error the read of a corrupted element raises
ErrorKinds == {"JSONDecodeError", "KeyError"}
Final == {"LOADED", "FAILED"}

(* read_zarr(path, on_bad_files=mode) opens the store: every persisted element
   is PENDING; bad[i] is the error the read of the i-th element raises, or
   "none" *)
OpenRead(D, file_path, mode, bad) ==
  [phase |-> "reading", mode |-> mode, path |-> file_path,
   order |-> D[file_path].written, bad |-> bad,
   st |-> [i \in DOMAIN D[file_path].written |-> "PENDING"],
   loaded |-> <<>>, warnings |-> <<>>, err |-> "ok"]

\* the reader that starts an element whatever the others are doing
CanBeginAlways(r) == TRUE
\* an element is started only when none is being read
CanBegin(r) == \A i \in DOMAIN r.st : r.st[i] # "READING"
\* the next element of the reading order
NextPending(r) == MinOf({i \in DOMAIN r.st : r.st[i] = "PENDING"})
BeginRead(r) == [r EXCEPT !.st[NextPending(r)] = "READING"]

\* a failure that aborts the read in either mode
OnBadFileAborts(r, i) ==
  [r EXCEPT !.st[i] = "FAILED", !.phase = "raised", !.err = r.bad[i]]
\* a failure that drops the element without a warning
OnBadFileSilent(r, i) ==
  IF r.mode = "warn" THEN [r EXCEPT !.st[i] = "FAILED"]
  ELSE [r EXCEPT !.st[i] = "FAILED", !.phase = "raised", !.err = r.bad[i]]
\* a failure that is warned of in either mode
OnBadFileContinues(r, i) ==
  [r EXCEPT !.st[i] = "FAILED",
            !.warnings = Append(@, [kind |-> "element", path |-> r.order[i],
                                    error |-> r.bad[i]])]

(* the failure of the read of element i: with "warn" a warning naming the
   element's path and the kind of the error, the element FAILED, and the read
   goes on; with "error" the error is raised *)
OnBadFile(r, i) ==
  IF r.mode = "warn"
  THEN [r EXCEPT !.st[i] = "FAILED",
                 !.warnings = Append(@, [kind |-> "element", path |-> r.order[i],
                                         error |-> r.bad[i]])]
  ELSE [r EXCEPT !.st[i] = "FAILED", !.phase = "raised", !.err = r.bad[i]]

\* element i has been read into the object id
OnLoaded(r, i, id) ==
  [r EXCEPT !.st[i] = "LOADED", !.loaded = Append(@, <<r.order[i][1], r.order[i][2], id>>)]

\* the loaded elements of kind k as constructor argument
LoadedOf(r, k) ==
  LET mine == SelectSeq(r.loaded, LAMBDA e : e[1] = k)
  IN [i \in DOMAIN mine |-> <<mine[i][2], mine[i][3]>>]

(* the end of the read: the container is constructed from the loaded elements,
   its tables validated against them; yields the container and the reader *)
CloseRead(r, Tb) ==
  LET sp == SpatialDataInit(LoadedOf(r, "images"), LoadedOf(r, "labels"),
                            LoadedOf(r, "points"), LoadedOf(r, "shapes"), <<>>)
      tbls == LoadedOf(r, "tables")
      made == InitTables(sp.c, Tb, tbls, FALSE)
      absent == SelectSeq(tbls, LAMBDA e : ValidateTableInSpatialData(sp.c, Tb[e[2]]).warn)
      integrity == [i \in DOMAIN absent |->
                      [kind |-> "integrity", path |-> <<"tables", absent[i][1]>>,
                       error |-> "UserWarning"]]
  IN IF sp.err # "ok"
     THEN [c |-> NoCont, reader |-> [r EXCEPT !.phase = "raised", !.err = sp.err]]
     ELSE IF made.err # "ok"
     THEN [c |-> NoCont, reader |-> [r EXCEPT !.phase = "raised", !.err = made.err]]
     ELSE [c |-> made.c,
           reader |-> [r EXCEPT !.phase = "done", !.warnings = @ \o integrity]]

\* read_zarr(file_path, on_bad_files=mode) is called
StartRead(file_path, mode, bad) ==
  /\ reader.phase = "idle"
  /\ disk[file_path].kind = "zarr"
  /\ reader' = OpenRead(disk, file_path, mode, bad)
  /\ UNCHANGED <<sdata, result, elems, tabs, disk, last, nops>>

\* the reader turns to the next element
BeginElement ==
  /\ reader.phase = "reading"
  /\ \E i \in DOMAIN reader.st : reader.st[i] = "PENDING"
  /\ CanBegin(reader)
  /\ reader' = BeginRead(reader)
  /\ UNCHANGED <<sdata, result, elems, tabs, disk, last, nops>>

(* the read of the element under way ends: with the element as a new object
   that holds what was written, or with the element's error *)
FinishElement ==
  /\ reader.phase = "reading"
  /\ \E i \in DOMAIN reader.st :
        /\ reader.st[i] = "READING"
        /\ LET k == reader.order[i][1]
               n == reader.order[i][2]
               eid == MinOf(ObjIds \ DOMAIN elems)
               tid == MinOf(TblIds \ DOMAIN tabs)
           IN IF reader.bad[i] # "none"
              THEN /\ reader' = OnBadFile(reader, i)
                   /\ UNCHANGED <<elems, tabs>>
              ELSE IF k = "tables"
              THEN /\ tabs' = Ext(tabs, tid, tabs[sdata.el[k][n]])
                   /\ reader' = OnLoaded(reader, i, tid)
                   /\ UNCHANGED elems
              ELSE /\ elems' = Ext(elems, eid, elems[sdata.el[k][n]])
                   /\ reader' = OnLoaded(reader, i, eid)
                   /\ UNCHANGED tabs
  /\ UNCHANGED <<sdata, result, disk, last, nops>>

\* every element has been read or has failed: the container is returned
FinishRead ==
  /\ reader.phase = "reading"
  /\ \A i \in DOMAIN reader.st : reader.st[i] \in Final
  /\ LET r == CloseRead(reader, tabs)
     IN /\ result' = r.c
        /\ reader' = r.reader
  /\ UNCHANGED <<sdata, elems, tabs, disk, last, nops>>

(* a container of up to two elements and a table, and at path p the store it
   was written to, from which elements may have been deleted since *)
InitRead ==
  \E ka \in {"labels", Absent}, kb \in {"shapes", Absent} : \E tb \in DrawnTables :
    \E keep \in SUBSET (1..3) :
      LET all == <<<<ka, "a">>, <<kb, "b">>,
                   <<IF tb[1] = <<>> THEN Absent ELSE "tables", "t">>>>
          kept == SelectSeq([i \in 1..3 |-> IF i \in keep THEN all[i] ELSE <<Absent, "-">>],
                            LAMBDA e : e[1] # Absent)
      IN Drawn(ka, [cs \in {"A"} |-> "Identity"], kb, [cs \in {"A"} |-> "Scale"],
               tb[1], tb[2],
               [f \in Paths |-> IF f = "p"
                                THEN [kind |-> "zarr", written |-> kept, consolidated |-> TRUE]
                                ELSE NoFile])

NextRead ==
  \/ \E file_path \in {f \in Paths : disk[f].kind = "zarr"} : \E mode \in {"error", "warn"} :
        \E bad \in [DOMAIN disk[file_path].written -> ErrorKinds \cup {"none"}] :
           StartRead(file_path, mode, bad)
  \/ BeginElement
  \/ FinishElement
  \/ FinishRead

SpecRead == InitRead /\ [][NextRead]_vars

\* the reader is a sequential loop that runs on until it returns or raises
SpecReadFair == SpecRead /\ WF_vars(NextRead)

\* ------------------------------------------------------------- registry claims

\* the name the last keyed operation was about
LastName == CHOOSE n \in last.names[last.kind] : TRUE
SpatialArgs(l) == UNION {l.names[k] : k \in SpatialKinds}

(* C1: in every reachable state no name is held by two entries across the
   images, labels, points and shapes collections. *)
C1_NoNameInTwoCollections ==
  \A k1, k2 \in SpatialKinds :
     k1 # k2 => (DOMAIN sdata.el[k1]) \cap (DOMAIN sdata.el[k2]) = {}

(* C2: registering a spatial element under a name already used by an image,
   labels, points or shapes entry fails with the duplicate-name error and
   leaves the collections as they were. *)
C2_DuplicatePutFails ==
  [][(last'.op = "put" /\ last'.kind \in SpatialKinds
        /\ last'.names[last'.kind] \subseteq SpatialNames(sdata))
       => (last'.err = "KeyError" /\ sdata'.el = sdata.el)]_vars

(* C3: the name-uniqueness check does not apply to tables: a table is
   registered under any name, also one a spatial element uses (by keyed
   assignment, by the tables setter and by the constructor), and a spatial
   element is registered under a name that only a table uses, that is a name
   its collection's name set does not hold. *)
C3_TablesExempt ==
  [][/\ (last'.op \in {"put", "set"} /\ last'.kind = "tables")
          => (last'.err = "ok" /\ last'.names["tables"] \subseteq DOMAIN sdata'.el["tables"])
     /\ (last'.op = "put" /\ last'.kind \in SpatialKinds
           /\ last'.names[last'.kind] \cap sdata.sets[sdata.ref[last'.kind]] = {})
          => (last'.err = "ok" /\ last'.names[last'.kind] \subseteq DOMAIN sdata'.el[last'.kind])
     /\ (last'.op = "init"
           /\ \A k1, k2 \in SpatialKinds : k1 # k2 => last'.names[k1] \cap last'.names[k2] = {})
          => (last'.err = "ok"
              /\ \A k \in Kinds : DOMAIN sdata'.el[k] = last'.names[k])]_vars

\* a table and a spatial element share a name, one of them just registered
C3_Witness ==
  /\ last.op \in {"put", "init"} /\ last.err = "ok"
  /\ \E n \in last.names["tables"] \cup SpatialArgs(last) :
        n \in DOMAIN sdata.el["tables"] /\ n \in SpatialNames(sdata)

(* C4: the shared name set is one set seen by all collections of the
   container and holds exactly the names registered in the spatial ones. *)
C4_OneSharedNameSet ==
  /\ \A k \in Kinds : sdata.ref[k] = sdata.own
  /\ sdata.sets[sdata.own] = SpatialNames(sdata)

\* ------------------------------------------------------------- query claims

\* the rows (instance ids) of a table and its rows' regions
RowIds(t) == Range(t.obs[t.attrs.instance_key])
RegionOfRow(t, id) ==
  t.obs[t.attrs.region_key][CHOOSE i \in DOMAIN t.obs[t.attrs.instance_key] :
                               t.obs[t.attrs.instance_key][i] = id]
HasRequested(m, css) == \E i \in DOMAIN css : css[i] \in DOMAIN m

(* C5: filter_by_coordinate_system returns a container whose spatial elements
   are exactly the elements of the original that have a transformation entry
   keyed by a requested name, each once, under its type and name. *)
C5_FilterKeepsExactly ==
  [][last'.op = "filter" =>
       /\ last'.err = "ok"
       /\ \A k \in SpatialKinds : \A n \in Names :
            n \in DOMAIN result'.el[k]
              <=> (n \in DOMAIN sdata.el[k] /\ HasRequested(elems[sdata.el[k][n]], last'.css))
       /\ \A k \in SpatialKinds : \A n \in DOMAIN result'.el[k] :
            result'.el[k][n] = sdata.el[k][n]
       /\ \A k1, k2 \in SpatialKinds :
            k1 # k2 => (DOMAIN result'.el[k1]) \cap (DOMAIN result'.el[k2]) = {}]_vars

\* two systems were requested, one element was kept and another dropped
C5_Witness ==
  /\ last.op = "filter" /\ last.err = "ok" /\ Len(last.css) = 2
  /\ SpatialNames(result) # {} /\ SpatialNames(result) # SpatialNames(sdata)

(* C6: filter_by_coordinate_system and transform_to_coordinate_system leave
   the container they are called on unchanged: its names per collection, its
   tables and their rows, and every element's coordinate-system mapping. *)
C6_QueriesLeaveOriginal ==
  [][last'.op \in {"filter", "transform"} =>
       /\ sdata'.el = sdata.el
       /\ \A o \in Range(GenSpatialElementValues(sdata)) :
            o \in DOMAIN elems' /\ elems'[o] = elems[o]
       /\ \A n \in DOMAIN sdata.el["tables"] :
            tabs'[sdata.el["tables"][n]] = tabs[sdata.el["tables"][n]]]_vars

\* a transform whose result holds an element that had more than the target
C6_Witness ==
  /\ last.op = "transform" /\ last.err = "ok"
  /\ \E n \in SpatialNames(result) :
        elems[ElementNamed(sdata, n)] # elems[ElementNamed(result, n)]

(* C7: the container filter_by_coordinate_system returns is independent of
   the original: no later change of the returned container (a rename of
   coordinate systems, setting or removing a transformation of one of its
   elements, adding or removing a table) changes the original's element
   mappings, coordinate systems or tables. *)
C7_ResultIndependent ==
  [][(last'.op \in {"result.rename", "result.set_transformation",
                    "result.remove_transformation", "result.tables.put",
                    "result.tables.del"})
       => /\ sdata' = sdata
          /\ \A o \in Range(GenSpatialElementValues(sdata)) : elems'[o] = elems[o]
          /\ CoordinateSystems(sdata, elems') = CoordinateSystems(sdata, elems)
          /\ \A n \in DOMAIN sdata.el["tables"] :
               tabs'[sdata.el["tables"][n]] = tabs[sdata.el["tables"][n]]]_vars

(* C8: filtering the result of filter_by_coordinate_system(S) by S again
   yields the same element names per collection and the same tables with the
   same rows as filtering once. *)
C8_FilterIdempotent ==
  (last.op = "filter" /\ last.err = "ok") =>
     LET again == FilterByCoordinateSystem(result, elems, tabs, last.css, last.ft)
     IN /\ again.err = "ok"
        /\ \A k \in Kinds : DOMAIN again.c.el[k] = DOMAIN result.el[k]
        /\ \A n \in DOMAIN result.el["tables"] :
             again.tabs[again.c.el["tables"][n]].obs = tabs[result.el["tables"][n]].obs

\* a filter with filter_tables that dropped an element and rows of a table
C8_Witness ==
  /\ last.op = "filter" /\ last.err = "ok" /\ last.ft
  /\ SpatialNames(result) # SpatialNames(sdata)
  /\ \E n \in DOMAIN result.el["tables"] :
        /\ RowIds(tabs[result.el["tables"][n]]) # {}
        /\ RowIds(tabs[result.el["tables"][n]]) # RowIds(tabs[sdata.el["tables"][n]])

(* C9: in the result of filter_by_coordinate_system every table of the
   original is present under its name; with filter_tables it holds exactly
   the rows whose region_key value names a kept element, without it all of
   its rows. *)
C9_TablesFollowElements ==
  [][(last'.op = "filter" /\ last'.err = "ok") =>
       /\ DOMAIN result'.el["tables"] = DOMAIN sdata.el["tables"]
       /\ \A n \in DOMAIN sdata.el["tables"] :
            LET t0 == tabs[sdata.el["tables"][n]]
                t1 == tabs'[result'.el["tables"][n]]
            IN IF last'.ft
               THEN /\ RowIds(t1) = {id \in RowIds(t0) :
                                       RegionOfRow(t0, id) \in SpatialNames(result')}
                    /\ \A id \in RowIds(t1) : RegionOfRow(t1, id) = RegionOfRow(t0, id)
                    /\ Len(t1.obs[t1.attrs.instance_key]) = Cardinality(RowIds(t1))
               ELSE t1 = t0]_vars

\* filter_tables kept one row of a table and dropped another
C9_Witness ==
  /\ last.op = "filter" /\ last.err = "ok" /\ last.ft
  /\ \E n \in DOMAIN result.el["tables"] :
        /\ Cardinality(RowIds(tabs[result.el["tables"][n]])) = 1
        /\ Cardinality(RowIds(tabs[sdata.el["tables"][n]])) = 2

\* ------------------------------------------------------------- rename claims

PairwiseDistinctTargets(rd) == \A i, j \in DOMAIN rd : i # j => rd[i][2] # rd[j][2]

(* C10: rename_coordinate_systems fails with ValueError when a key of the
   rename map is not a live coordinate system and when a value is a live
   system that is not a key of the map; a target that is a live system
   renamed away in the same call is no reason to fail: a map of live sources
   with pairwise distinct targets, each not live or itself a source, is
   accepted. *)
C10_RenameRejects ==
  [][last'.op = "rename" =>
       LET rd == last'.rd
           live == CoordinateSystems(sdata, elems)
       IN /\ (\E i \in DOMAIN rd : rd[i][1] \notin live) => last'.err = "ValueError"
          /\ (\E i \in DOMAIN rd : rd[i][2] \in live \ Keys(rd)) => last'.err = "ValueError"
          /\ (/\ Keys(rd) \subseteq live
              /\ PairwiseDistinctTargets(rd)
              /\ \A i \in DOMAIN rd : rd[i][2] \notin live \ Keys(rd))
               => last'.err = "ok"]_vars

\* an accepted rename with a target that is another, live source of the map
C10_Witness ==
  /\ last.op = "rename" /\ last.err = "ok"
  /\ \E i, j \in DOMAIN last.rd : i # j /\ last.rd[i][2] = last.rd[j][1]

\* the values of a rename map and the name a key is renamed to
Targets(rd) == {rd[i][2] : i \in DOMAIN rd}
Renamed(rd, k) ==
  IF k \in Keys(rd) THEN rd[CHOOSE i \in DOMAIN rd : rd[i][1] = k][2] ELSE k
Contained(c) == Range(GenSpatialElementValues(c))
IsSwap(rd) == Len(rd) = 2 /\ rd[1][1] = rd[2][2] /\ rd[1][2] = rd[2][1] /\ rd[1][1] # rd[1][2]

(* C11: with A and B both live, rename_coordinate_systems({A: B, B: A})
   succeeds; every element then has under B the transformation it had under A
   and under A the one it had under B, also an element that maps into both,
   and has as many entries as before. *)
C11_SwapKeepsEntries ==
  [][(last'.op = "rename" /\ IsSwap(last'.rd)
        /\ Keys(last'.rd) \subseteq CoordinateSystems(sdata, elems)) =>
       LET A == last'.rd[1][1]
           B == last'.rd[1][2]
       IN /\ last'.err = "ok"
          /\ \A o \in Contained(sdata) :
               /\ A \in DOMAIN elems[o] <=> B \in DOMAIN elems'[o]
               /\ B \in DOMAIN elems[o] <=> A \in DOMAIN elems'[o]
               /\ A \in DOMAIN elems[o] => elems'[o][B] = elems[o][A]
               /\ B \in DOMAIN elems[o] => elems'[o][A] = elems[o][B]
               /\ Cardinality(DOMAIN elems'[o]) = Cardinality(DOMAIN elems[o])]_vars

\* a swap done on an element that maps into both systems, by different values
C11_Witness ==
  /\ last.op = "rename" /\ last.err = "ok" /\ IsSwap(last.rd)
  /\ \E o \in Contained(sdata) :
        /\ Keys(last.rd) \subseteq DOMAIN elems[o]
        /\ elems[o][last.rd[1][1]] # elems[o][last.rd[1][2]]

(* C12: for a live system A and a name B that is not live,
   rename_coordinate_systems({A: B}) followed by
   rename_coordinate_systems({B: A}) leaves every element with the keys and
   transformations it had before the two calls. *)
C12_RenameRoundTrip ==
  [][(last'.op = "rename" /\ Len(last'.rd) = 1
        /\ last'.rd[1][1] \in CoordinateSystems(sdata, elems)
        /\ last'.rd[1][2] \notin CoordinateSystems(sdata, elems)) =>
       LET back == RenameCoordinateSystems(sdata', elems',
                                           <<<<last'.rd[1][2], last'.rd[1][1]>>>>)
       IN /\ last'.err = "ok"
          /\ back.err = "ok"
          /\ back.elems = elems]_vars

\* A was renamed to a new name B in two elements, and renaming back changes them
C12_Witness ==
  /\ last.op = "rename" /\ last.err = "ok" /\ Len(last.rd) = 1
  /\ last.rd[1][1] \notin CoordinateSystems(sdata, elems)
  /\ Cardinality({o \in Contained(sdata) : last.rd[1][2] \in DOMAIN elems[o]}) = 2
  /\ LET back == RenameCoordinateSystems(sdata, elems, <<<<last.rd[1][2], last.rd[1][1]>>>>)
     IN back.err = "ok" /\ back.elems # elems

(* C13: after a successful rename_coordinate_systems(m) every element's
   mapping is its old mapping with each key k of m replaced by m[k] and every
   other key kept, each key with the transformation it carried; no element
   maps into a source that is not also a target, and the live coordinate
   systems are the old ones with the sources replaced by the targets. *)
C13_RenameRelabels ==
  [][(last'.op = "rename" /\ last'.err = "ok") =>
       LET rd == last'.rd IN
       /\ \A o \in Contained(sdata) :
            /\ DOMAIN elems'[o] = {Renamed(rd, k) : k \in DOMAIN elems[o]}
            /\ \A k \in DOMAIN elems[o] : elems'[o][Renamed(rd, k)] = elems[o][k]
            /\ Cardinality(DOMAIN elems'[o]) = Cardinality(DOMAIN elems[o])
            /\ DOMAIN elems'[o] \cap (Keys(rd) \ Targets(rd)) = {}
       /\ CoordinateSystems(sdata', elems')
            = (CoordinateSystems(sdata, elems) \ Keys(rd)) \cup Targets(rd)]_vars

\* two elements mapped into the source, now both map into the new name
C13_Witness ==
  /\ last.op = "rename" /\ last.err = "ok" /\ Len(last.rd) = 1
  /\ last.rd[1][1] # last.rd[1][2]
  /\ Cardinality(Contained(sdata)) = 2
  /\ \A o \in Contained(sdata) :
        last.rd[1][2] \in DOMAIN elems[o] /\ last.rd[1][1] \notin DOMAIN elems[o]

(* C14: when rename_coordinate_systems raises ValueError no element's mapping
   has changed; when it returns, every requested rename is applied to every
   element that had the source. *)
C14_RenameAllOrNothing ==
  [][last'.op = "rename" =>
       /\ last'.err = "ValueError" => elems' = elems
       /\ last'.err = "ok" =>
            \A o \in Contained(sdata) : \A i \in DOMAIN last'.rd :
               last'.rd[i][1] \in DOMAIN elems[o]
                 => /\ last'.rd[i][2] \in DOMAIN elems'[o]
                    /\ elems'[o][last'.rd[i][2]] = elems[o][last'.rd[i][1]]]_vars

\* a refused rename map one of whose entries alone would have been applied
C14_Witness ==
  /\ last.op = "rename" /\ last.err = "ValueError" /\ Len(last.rd) = 2
  /\ \E i \in DOMAIN last.rd :
        /\ RenameCoordinateSystems(sdata, elems, <<last.rd[i]>>).err = "ok"
        /\ RenameCoordinateSystems(sdata, elems, <<last.rd[i]>>).elems # elems

\* ------------------------------------------------------------- transform claims

(* C15: transform_to_coordinate_system(S) returns a container that holds
   exactly the spatial elements that were live in S, each with exactly one
   coordinate-system entry, keyed S and mapped to Identity, whatever else the
   original element mapped into. *)
C15_TransformOnlyTarget ==
  [][last'.op = "transform" =>
       LET S == last'.css[1] IN
       /\ last'.err = "ok"
       /\ \A k \in SpatialKinds : \A n \in Names :
            n \in DOMAIN result'.el[k]
              <=> (n \in DOMAIN sdata.el[k] /\ S \in DOMAIN elems[sdata.el[k][n]])
       /\ \A k \in SpatialKinds : \A n \in DOMAIN result'.el[k] :
            /\ DOMAIN elems'[result'.el[k][n]] = {S}
            /\ elems'[result'.el[k][n]][S] = "Identity"]_vars

\* an element with a second system and a Scale was transformed, another dropped
C15_Witness ==
  /\ last.op = "transform" /\ last.err = "ok"
  /\ SpatialNames(result) # SpatialNames(sdata)
  /\ \E n \in SpatialNames(result) :
        /\ Cardinality(DOMAIN elems[ElementNamed(sdata, n)]) = 2
        /\ elems[ElementNamed(sdata, n)][last.css[1]] = "Scale"

\* ------------------------------------------------------------- annotation claims

\* the region_key column of table t exists and names only members of region
Symmetric(t, region_key, region) ==
  region_key \in DOMAIN t.obs /\ Range(t.obs[region_key]) \subseteq region

(* C16: set_annotation_target fails with ValueError when region_key is not a
   column of the row metadata, when instance_key is not such a column, and
   when the region_key column holds a value that is not in the declared
   region; in each case the table's annotation metadata is afterwards what it
   was before. *)
C16_SetTargetRejects ==
  [][last'.op = "set_target" =>
       LET t == tabs[last'.table] IN
       (\/ last'.region_key \notin DOMAIN t.obs
        \/ last'.instance_key \notin DOMAIN t.obs
        \/ ~Symmetric(t, last'.region_key, last'.region))
         => (last'.err = "ValueError" /\ tabs'[last'.table] = t)]_vars

\* a refusal for the one reason that a row names a region not declared
C16_Witness ==
  /\ last.op = "set_target" /\ last.err = "ValueError"
  /\ LET t == tabs[last.table]
     IN /\ {last.region_key, last.instance_key} \subseteq DOMAIN t.obs
        /\ ~Symmetric(t, last.region_key, last.region)
        /\ t.attrs # NoAttrs

(* C17: when the region_key and instance_key columns exist and every value of
   the region_key column is in the declared region, set_annotation_target
   succeeds, stores the triple (region, region_key, instance_key) in the
   table's metadata, and get_annotated_regions then returns that region. *)
C17_SetTargetStores ==
  [][(last'.op = "set_target"
        /\ last'.instance_key \in DOMAIN tabs[last'.table].obs
        /\ Symmetric(tabs[last'.table], last'.region_key, last'.region)) =>
       /\ last'.err = "ok"
       /\ tabs'[last'.table].attrs = [region |-> last'.region,
                                       region_key |-> last'.region_key,
                                       instance_key |-> last'.instance_key]
       /\ tabs'[last'.table].obs = tabs[last'.table].obs
       /\ GetAnnotatedRegions(tabs'[last'.table]) = last'.region]_vars

\* a target of two regions set on a table whose rows name both
C17_Witness ==
  /\ last.op = "set_target" /\ last.err = "ok"
  /\ Cardinality(last.region) = 2
  /\ Range(tabs[last.table].obs[last.region_key]) = last.region
  /\ GetAnnotatedRegions(tabs[last.table]) = last.region

(* C18: change_annotation_target without a region_key argument, on a table
   that has annotation metadata, reuses the stored region_key: it fails with
   ValueError when none is stored or when the stored one is no column of the
   row metadata; the stored region is replaced by the new one only when the
   symmetry check of the stored region_key column against the new region has
   passed, and is what it was when that check fails. *)
C18_ChangeTargetReusesKey ==
  [][(last'.op = "change_target" /\ last'.region_key = None) =>
       LET t == tabs[last'.table]
           t1 == tabs'[last'.table]
           stored == t.attrs.region_key
           instance_ok == IF last'.instance_key = None
                          THEN t.attrs.instance_key \in DOMAIN t.obs
                          ELSE last'.instance_key \in DOMAIN t.obs
       IN /\ (stored = None \/ stored \notin DOMAIN t.obs)
               => (last'.err = "ValueError" /\ t1 = t)
          /\ (stored \in DOMAIN t.obs /\ ~Symmetric(t, stored, last'.region))
               => (last'.err = "ValueError" /\ t1.attrs.region = t.attrs.region)
          /\ (instance_ok /\ Symmetric(t, stored, last'.region))
               => (last'.err = "ok" /\ t1.attrs.region = last'.region
                   /\ t1.attrs.region_key = stored)
          /\ t1.attrs.region # t.attrs.region
               => (last'.err = "ok" /\ Symmetric(t, stored, last'.region))]_vars

\* the new region refused by the check made on the stored region_key column
C18_Witness ==
  /\ last.op = "change_target" /\ last.region_key = None /\ last.err = "ValueError"
  /\ LET t == tabs[last.table]
     IN /\ t.attrs.region_key \in DOMAIN t.obs
        /\ t.attrs.instance_key \in DOMAIN t.obs
        /\ ~Symmetric(t, t.attrs.region_key, last.region)
        /\ t.attrs.region # last.region

\* the tables of a dict all pass the schema validation
AllValid(tbls) == \A i \in DOMAIN tbls : TableModelValidate(tabs[tbls[i][2]]) = "ok"
\* table t names a region that is no spatial element of container c
NamesAbsentRegion(c, t) == t.attrs # NoAttrs /\ ~(t.attrs.region \subseteq SpatialNames(c))

(* C19: validating a table, or constructing a container with it, when its
   annotation metadata names a region that is no spatial element of the
   container emits a warning and does not raise: the table is registered as
   it is when the region is present; no warning is emitted when every named
   region is a spatial element and when the table has no annotation
   metadata. *)
C19_AbsentRegionWarnsOnly ==
  [][/\ (last'.op = "validate" /\ TableModelValidate(tabs[last'.table]) = "ok")
          => /\ last'.err = "ok"
             /\ last'.warn <=> NamesAbsentRegion(sdata, tabs[last'.table])
     /\ (last'.op = "init" /\ AllValid(last'.table))
          => /\ last'.err = "ok"
             /\ last'.warn <=> \E i \in DOMAIN last'.table :
                                  NamesAbsentRegion(sdata, tabs[last'.table[i][2]])
             /\ \A k \in SpatialKinds : result'.el[k] = sdata.el[k]
             /\ DOMAIN result'.el["tables"] = Keys(last'.table)
             /\ \A i \in DOMAIN last'.table :
                  result'.el["tables"][last'.table[i][1]] = last'.table[i][2]]_vars

\* a container built with a table that names one present and one absent region
C19_Witness ==
  /\ last.op = "init" /\ last.err = "ok" /\ last.warn
  /\ \E n \in DOMAIN result.el["tables"] :
        /\ tabs[result.el["tables"][n]].attrs.region \cap SpatialNames(result) # {}
        /\ ~(tabs[result.el["tables"][n]].attrs.region \subseteq SpatialNames(result))

\* ------------------------------------------------------------- write claims

(* C20: write(path, overwrite=False) fails with ValueError when the target
   path exists, also when what is there is no recognised store, and when the
   path is the one the container is backed by; in each case nothing is written
   and the container's backing path is afterwards what it was before. *)
C20_WriteRefusesExisting ==
  [][(last'.op = "write" /\ ~last'.overwrite
        /\ (disk[last'.path].kind # "absent" \/ sdata.path = last'.path)) =>
       /\ last'.err = "ValueError"
       /\ disk' = disk
       /\ sdata'.path = sdata.path
       /\ IsBacked(sdata') <=> IsBacked(sdata)]_vars

\* a backed container refused the write to its own store, another store exists
C20_Witness ==
  /\ last.op = "write" /\ ~last.overwrite /\ last.err = "ValueError"
  /\ sdata.path = last.path
  /\ \A f \in Paths : disk[f].kind = "zarr"

(* C21: when a step of write raises after the backing path has been bound
   (the write of an image, labels, points, shapes or table element, or the
   final consolidation of the metadata) the container is not backed
   afterwards; the container comes to be backed by the target path only by a
   write that completed without an exception. *)
C21_FailedWriteUnbinds ==
  [][last'.op = "write" =>
       /\ last'.err = "Exception" => ~IsBacked(sdata')
       /\ (sdata'.path = last'.path /\ sdata.path # last'.path) => last'.err = "ok"]_vars

(* C28: write(path, overwrite=True) to a path that holds a recognised store
   other than the one the container is backed by does not raise the "store
   already exists" error: when no step of the writing fails it overwrites the
   store and leaves the container backed by that path. *)
C28_OverwriteReplacesStore ==
  [][(last'.op = "write" /\ last'.overwrite
        /\ disk[last'.path].kind = "zarr" /\ sdata.path # last'.path) =>
       /\ last'.msg # "already exists"
       /\ last'.fault = 0 =>
            /\ last'.err = "ok"
            /\ sdata'.path = last'.path
            /\ disk'[last'.path].written = WriteOrder(sdata)]_vars

\* ------------------------------------------------------------- further rename claims

(* C29: rename_coordinate_systems never merges two coordinate systems: a
   rename map in which two different sources have the same target is rejected
   with ValueError, and after a successful rename the number of live
   coordinate systems and the number of transformation entries of every
   element are what they were before. *)
C29_RenameNeverMerges ==
  [][last'.op = "rename" =>
       /\ ~PairwiseDistinctTargets(last'.rd) => last'.err = "ValueError"
       /\ last'.err = "ok" =>
            /\ Cardinality(CoordinateSystems(sdata', elems'))
                 = Cardinality(CoordinateSystems(sdata, elems))
            /\ \A o \in Contained(sdata) :
                 Cardinality(DOMAIN elems'[o]) = Cardinality(DOMAIN elems[o])]_vars

\* two live systems sent to one name that is not live: refused, both still live
C29_Witness ==
  /\ last.op = "rename" /\ last.err = "ValueError" /\ Len(last.rd) = 2
  /\ last.rd[1][2] = last.rd[2][2]
  /\ Keys(last.rd) \subseteq CoordinateSystems(sdata, elems)
  /\ last.rd[1][2] \notin CoordinateSystems(sdata, elems)
  /\ \E o \in Contained(sdata) : Keys(last.rd) \subseteq DOMAIN elems[o]

\* ------------------------------------------------------------- further annotation claims

(* C30: when change_annotation_target is called with an explicit region_key
   that is a column of the row metadata, the symmetry check of the new region
   is made against the column that region_key names, and after success the
   stored region_key is the supplied one and the stored region the new one. *)
C30_ChangeTargetUsesGivenKey ==
  [][(last'.op = "change_target" /\ last'.region_key # None
        /\ last'.region_key \in DOMAIN tabs[last'.table].obs) =>
       LET t == tabs[last'.table]
           t1 == tabs'[last'.table]
           instance_ok == IF last'.instance_key = None
                          THEN t.attrs.instance_key \in DOMAIN t.obs
                          ELSE last'.instance_key \in DOMAIN t.obs
       IN /\ instance_ok =>
               (last'.err = "ok" <=> Symmetric(t, last'.region_key, last'.region))
          /\ last'.err = "ok" =>
               /\ t1.attrs.region_key = last'.region_key
               /\ t1.attrs.region = last'.region]_vars

(* C27: set_table_annotates_spatialelement raises ValueError when the region
   is not the name of a spatial element of the container, without touching
   the table; otherwise it changes the target of a table that has annotation
   metadata, sets it on a table that has none when region_key and
   instance_key are both given, and raises TypeError when the table has none
   and a key is missing; whenever it raises, the table's annotation metadata
   is what it was before. *)
C27_AnnotatesDispatch ==
  [][last'.op = "annotates" =>
       LET t == tabs[last'.table]
           t1 == tabs'[last'.table]
           rg == last'.region
           rk == last'.region_key
           ik == last'.instance_key
           present == rg \subseteq SpatialNames(sdata)
       IN /\ ~present => (last'.err = "ValueError" /\ t1 = t)
          /\ (present /\ t.attrs # NoAttrs)
               => [t |-> t1, err |-> last'.err] = ChangeTableAnnotationTarget(t, rg, rk, ik)
          /\ (present /\ t.attrs = NoAttrs /\ rk # None /\ ik # None)
               => [t |-> t1, err |-> last'.err] = SetTableAnnotationTarget(t, rg, rk, ik)
          /\ (present /\ t.attrs = NoAttrs /\ (rk = None \/ ik = None))
               => (last'.err = "TypeError" /\ t1 = t)
          /\ last'.err # "ok" => t1.attrs = t.attrs]_vars

\* ------------------------------------------------------------- reading claims

\* the corrupted elements of the store being read
Corrupted(r) == {i \in DOMAIN r.bad : r.bad[i] # "none"}
\* the names of the persisted elements of kind k whose status is in S
NamesIn(r, k, S) == {r.order[i][2] : i \in {j \in DOMAIN r.order : r.order[j][1] = k /\ r.st[j] \in S}}
\* the warnings emitted for element reads
ElementWarnings(r) == SelectSeq(r.warnings, LAMBDA w : w.kind = "element")

(* C22: with on_bad_files="warn" the read never aborts, whichever elements are
   corrupted and wherever they stand in the reading order, and the container
   it returns holds exactly the persisted elements whose read did not fail *)
C22_WarnReadsTheRest ==
  (reader.phase # "idle" /\ reader.mode = "warn") =>
    /\ reader.phase # "raised"
    /\ reader.phase = "done" =>
         \A k \in Kinds :
           DOMAIN result.el[k] =
             {reader.order[i][2] : i \in {j \in DOMAIN reader.order :
                                            reader.order[j][1] = k /\ reader.bad[j] = "none"}}

\* a read with warn has returned; a corrupted element stood before a sound one
C22_Witness ==
  /\ reader.phase = "done" /\ reader.mode = "warn"
  /\ \E i, j \in DOMAIN reader.order :
       i < j /\ reader.bad[i] # "none" /\ reader.bad[j] = "none"
  /\ \E k \in Kinds : DOMAIN result.el[k] # {}

(* C23: with on_bad_files="warn" exactly one warning is emitted for each
   element whose read failed, naming the element's path and the kind of its
   error, and none for an element that was loaded *)
C23_OneWarningPerFailure ==
  (reader.phase # "idle" /\ reader.mode = "warn") =>
    LET ws == ElementWarnings(reader)
    IN /\ \A i \in DOMAIN reader.st :
            /\ Cardinality({j \in DOMAIN ws : ws[j].path = reader.order[i]})
                 = IF reader.st[i] = "FAILED" THEN 1 ELSE 0
            /\ \A j \in DOMAIN ws :
                 ws[j].path = reader.order[i] => ws[j].error = reader.bad[i]
       /\ \A j \in DOMAIN ws : \E i \in DOMAIN reader.st : ws[j].path = reader.order[i]
       /\ \A j \in DOMAIN ws : ws[j].error \in ErrorKinds

\* a read with warn has returned after one element failed and another loaded
C23_Witness ==
  /\ reader.phase = "done" /\ reader.mode = "warn"
  /\ Len(ElementWarnings(reader)) = 1
  /\ \E i, j \in DOMAIN reader.st : reader.st[i] = "FAILED" /\ reader.st[j] = "LOADED"

(* C24: with on_bad_files="error" a read of a store with a corrupted element
   raises the error of the first corrupted element of the reading order, reads
   no element after it and returns no container; a read of a store without
   corruption returns a container with every persisted element *)
C24_ErrorModeAbortsAtFirst ==
  (reader.phase # "idle" /\ reader.mode = "error") =>
    /\ reader.phase = "raised" =>
         /\ Corrupted(reader) # {}
         /\ reader.err = reader.bad[MinOf(Corrupted(reader))]
         /\ reader.st[MinOf(Corrupted(reader))] = "FAILED"
         /\ \A i \in DOMAIN reader.st : i > MinOf(Corrupted(reader)) => reader.st[i] = "PENDING"
    /\ Corrupted(reader) # {} => (reader.phase # "done" /\ result = NoCont)
    /\ reader.phase = "done" =>
         \A k \in Kinds : DOMAIN result.el[k] = NamesIn(reader, k, {"LOADED", "FAILED", "PENDING", "READING"})

\* a read with error was aborted by its second element, a third never read
C24_Witness ==
  /\ reader.phase = "raised" /\ reader.mode = "error"
  /\ Len(reader.order) = 3
  /\ reader.bad[1] = "none" /\ reader.bad[2] # "none"
  /\ reader.st[1] = "LOADED" /\ reader.st[3] = "PENDING"

(* C25: in both modes a table whose annotation names an element that is missing
   from the store or whose read failed does not make the read fail: the read
   raises only the error of an element's read, the table is in the returned
   container and a warning that it annotates an element not present is emitted *)
C25_DanglingTableStillLoads ==
  reader.phase # "idle" =>
    /\ reader.phase = "raised" =>
         \E i \in DOMAIN reader.st :
           reader.st[i] = "FAILED" /\ reader.bad[i] \in ErrorKinds /\ reader.err = reader.bad[i]
    /\ reader.phase = "done" =>
         \A n \in NamesIn(reader, "tables", {"LOADED"}) :
           /\ n \in DOMAIN result.el["tables"]
           /\ LET t == tabs[result.el["tables"][n]]
                  present == UNION {NamesIn(reader, k, {"LOADED"}) : k \in SpatialKinds}
              IN (t.attrs # NoAttrs /\ ~(t.attrs.region \subseteq present)) =>
                   \E j \in DOMAIN reader.warnings :
                     /\ reader.warnings[j].kind = "integrity"
                     /\ reader.warnings[j].path = <<"tables", n>>

(* a read with error has returned a table annotating an element that is not in
   the store *)
C25_Witness ==
  /\ reader.phase = "done" /\ reader.mode = "error"
  /\ \E n \in DOMAIN result.el["tables"] :
       /\ tabs[result.el["tables"][n]].attrs.region # {}
       /\ \A k \in SpatialKinds : DOMAIN result.el[k] = {}
  /\ \E j \in DOMAIN reader.warnings : reader.warnings[j].kind = "integrity"

\* the steps an element's status may take
ElementSteps == {<<"PENDING", "READING">>, <<"READING", "LOADED">>, <<"READING", "FAILED">>}

(* C26: every persisted element starts PENDING and moves PENDING -> READING ->
   LOADED or FAILED; LOADED and FAILED are never left; at most one element is
   READING; the integrity check runs only after every element is LOADED or
   FAILED; with on_bad_files="warn" the read terminates, with every element
   LOADED or FAILED *)
C26_ElementStateMachine ==
  /\ [](reader.phase # "idle" =>
          /\ Cardinality({i \in DOMAIN reader.st : reader.st[i] = "READING"}) <= 1
          /\ (\E j \in DOMAIN reader.warnings : reader.warnings[j].kind = "integrity")
               => \A i \in DOMAIN reader.st : reader.st[i] \in Final
          /\ (reader.phase = "done" /\ reader.mode = "warn")
               => \A i \in DOMAIN reader.st : reader.st[i] \in Final)
  /\ [][ /\ (reader.phase = "idle" /\ reader'.phase # "idle") =>
             \A i \in DOMAIN reader'.st : reader'.st[i] = "PENDING"
         /\ reader.phase # "idle" =>
             /\ reader'.phase # "idle"
             /\ DOMAIN reader'.st = DOMAIN reader.st
             /\ \A i \in DOMAIN reader.st :
                  reader'.st[i] # reader.st[i] => <<reader.st[i], reader'.st[i]>> \in ElementSteps
             /\ (reader.phase = "reading" /\ reader'.phase = "done") =>
                  \A i \in DOMAIN reader.st : reader.st[i] \in Final]_vars
  /\ (reader.phase = "reading" /\ reader.mode = "warn") ~> (reader.phase = "done")

\* a read with warn has returned with an element LOADED and an element FAILED
C26_Witness ==
  /\ reader.phase = "done" /\ reader.mode = "warn"
  /\ Len(reader.order) = 3
  /\ reader.st[1] = "FAILED" /\ reader.st[2] = "LOADED" /\ reader.st[3] = "FAILED"

====
